---- MODULE Spec2Model ----
(***************************************************************************)
(* Model of the audio assembly pipeline of pcast (src/app.py):             *)
(*   - PodcastGenerator.parse_audio_mime_type  (MIME parameter parser)     *)
(*   - PodcastGenerator.convert_to_wav         (WAV encoder)               *)
(*   - PodcastGenerator.generate_podcast_audio (chunk collector with its   *)
(*     retry loop, followed by assembly and persistence)                   *)
(*   - PodcastGenerator.generate_podcast_script (script generation with   *)
(*     its retry loop and the completion call)                             *)
(*   - main                                    (the interactive loop over  *)
(*     topics, with generate_podcast_script seen by what it returns)       *)
(* Spec is one call of generate_podcast_audio, SpecPulse the same call     *)
(* with the pulse_animation threads it starts, SpecWav one call of the     *)
(* parser and of the encoder, SpecScript one call of                       *)
(* generate_podcast_script, SpecMain a run of main's loop.                 *)
(* Strings are sequences of one-character strings, byte strings are        *)
(* sequences of numbers in 0..255.  An Optional value is a sequence of     *)
(* length at most one: <<>> is None and <<v>> is the value v.              *)
(***************************************************************************)
EXTENDS Integers, Sequences, FiniteSets, TLC

\* ---------------------------------------------------------------- constants

\* src/app.py:33
MAX_RETRIES == 3

\* src/app.py:34
RETRY_DELAY == 2

\* Largest number of elements one stream attempt yields in the model.
MaxElems == 3

\* Bound of the model: topics main takes up during a run
MaxRequests == 2

\* Bound of the model: stream elements yielded during a run of main
MaxSessionElems == 1

\* src/app.py:517 and 518: the parser's defaults
DefaultBits == 16

DefaultRate == 24000

None == <<>>

Some(v) == <<v>>

\* ------------------------------------------------------------ MIME strings

\* 'audio/L16;rate=24000'
Mime_L16_24000 == <<"a", "u", "d", "i", "o", "/", "L", "1", "6", ";", "r", "a", "t", "e", "=", "2", "4", "0", "0", "0">>

\* 'audio/L24;rate=48000'
Mime_L24_48000 == <<"a", "u", "d", "i", "o", "/", "L", "2", "4", ";", "r", "a", "t", "e", "=", "4", "8", "0", "0", "0">>

\* ''
Mime_Empty == <<>>

\* 'garbage;nonsense=xyz'
Mime_Garbage == <<"g", "a", "r", "b", "a", "g", "e", ";", "n", "o", "n", "s", "e", "n", "s", "e", "=", "x", "y", "z">>

\* 'rate=notanumber'
Mime_RateNaN == <<"r", "a", "t", "e", "=", "n", "o", "t", "a", "n", "u", "m", "b", "e", "r">>

\* 'audio/L16;rate=-1'
Mime_NegRate == <<"a", "u", "d", "i", "o", "/", "L", "1", "6", ";", "r", "a", "t", "e", "=", "-", "1">>

\* 'audio/L70000;rate=8000'
Mime_BigBits == <<"a", "u", "d", "i", "o", "/", "L", "7", "0", "0", "0", "0", ";", "r", "a", "t", "e", "=", "8", "0", "0", "0">>

\* 'audio/L-8;rate=8000'
Mime_NegBits == <<"a", "u", "d", "i", "o", "/", "L", "-", "8", ";", "r", "a", "t", "e", "=", "8", "0", "0", "0">>

\* 'audio/L24;rate=2000000000'
Mime_BigByteRate == <<"a", "u", "d", "i", "o", "/", "L", "2", "4", ";", "r", "a", "t", "e", "=", "2", "0", "0", "0", "0", "0", "0", "0", "0", "0">>

\* 'audio/L12;rate=8000'
Mime_L12 == <<"a", "u", "d", "i", "o", "/", "L", "1", "2", ";", "r", "a", "t", "e", "=", "8", "0", "0", "0">>

\* 'audio/L8; RATE=44100 '
Mime_UpperKey == <<"a", "u", "d", "i", "o", "/", "L", "8", ";", " ", "R", "A", "T", "E", "=", "4", "4", "1", "0", "0", " ">>

\* 'rate =8000'
Mime_SpacedKey == <<"r", "a", "t", "e", " ", "=", "8", "0", "0", "0">>

\* 'audio/L;rate='
Mime_NoValues == <<"a", "u", "d", "i", "o", "/", "L", ";", "r", "a", "t", "e", "=">>

\* 'rate= 1_000'
Mime_Underscore == <<"r", "a", "t", "e", "=", " ", "1", "_", "0", "0", "0">>

\* 'rate=+5;audio/L32'
Mime_PlusSign == <<"r", "a", "t", "e", "=", "+", "5", ";", "a", "u", "d", "i", "o", "/", "L", "3", "2">>

\* 'rate=8000;rate=x'
Mime_GoodThenBad == <<"r", "a", "t", "e", "=", "8", "0", "0", "0", ";", "r", "a", "t", "e", "=", "x">>

\* 'audio/L8;audio/L32'
Mime_TwoBits == <<"a", "u", "d", "i", "o", "/", "L", "8", ";", "a", "u", "d", "i", "o", "/", "L", "3", "2">>

\* 'audio/l24;rate=16000'
Mime_LowerL == <<"a", "u", "d", "i", "o", "/", "l", "2", "4", ";", "r", "a", "t", "e", "=", "1", "6", "0", "0", "0">>

\* 'audio/mpeg'
Mime_Mpeg == <<"a", "u", "d", "i", "o", "/", "m", "p", "e", "g">>

\* 'rate=1__0;audio/L_8'
Mime_BadUnderscore == <<"r", "a", "t", "e", "=", "1", "_", "_", "0", ";", "a", "u", "d", "i", "o", "/", "L", "_", "8">>

\* The strings given to the parser and the encoder in SpecWav.
MimeStrings ==
    { Mime_L16_24000, Mime_L24_48000, Mime_Empty, Mime_Garbage, Mime_RateNaN,
      Mime_NegRate, Mime_BigBits, Mime_NegBits, Mime_BigByteRate, Mime_L12,
      Mime_UpperKey, Mime_SpacedKey, Mime_NoValues, Mime_Underscore,
      Mime_PlusSign, Mime_GoodThenBad, Mime_TwoBits, Mime_LowerL, Mime_Mpeg,
      Mime_BadUnderscore }

\* The fallback handed to the encoder, src/app.py:463
DefaultMime == Mime_L16_24000

\* ------------------------------------------------------- string operations

WhiteSpace == {" ", "\t"}

Digits == <<"0", "1", "2", "3", "4", "5", "6", "7", "8", "9">>

Uppers == <<"A", "B", "C", "D", "E", "F", "G", "H", "I", "J", "K", "L", "M",
            "N", "O", "P", "Q", "R", "S", "T", "U", "V", "W", "X", "Y", "Z">>

Lowers == <<"a", "b", "c", "d", "e", "f", "g", "h", "i", "j", "k", "l", "m",
            "n", "o", "p", "q", "r", "s", "t", "u", "v", "w", "x", "y", "z">>

IsDigit(c) == \E i \in 1..10 : Digits[i] = c

DigitVal(c) == (CHOOSE i \in 1..10 : Digits[i] = c) - 1

\* str.lower() on one character
LowerChar(c) ==
    IF \E i \in 1..26 : Uppers[i] = c
    THEN Lowers[CHOOSE i \in 1..26 : Uppers[i] = c]
    ELSE c

\* str.lower()
Lower(s) == [i \in 1..Len(s) |-> LowerChar(s[i])]

\* str.startswith(p)
StartsWith(s, p) == Len(s) >= Len(p) /\ SubSeq(s, 1, Len(p)) = p

\* str.strip(): leading and trailing whitespace removed
Strip(s) ==
    LET keep == {i \in 1..Len(s) : s[i] \notin WhiteSpace}
    IN  IF keep = {} THEN <<>>
        ELSE LET lo == CHOOSE i \in keep : \A j \in keep : i <= j
                 hi == CHOOSE i \in keep : \A j \in keep : j <= i
             IN  SubSeq(s, lo, hi)

\* Index of the first occurrence of the character sep in s, 0 if there is none
FirstIndex(s, sep) ==
    IF \A i \in 1..Len(s) : s[i] # sep THEN 0
    ELSE CHOOSE i \in 1..Len(s) : s[i] = sep /\ \A j \in 1..(i - 1) : s[j] # sep

\* str.split(sep): always at least one segment
RECURSIVE Split(_, _)
Split(s, sep) ==
    LET k == FirstIndex(s, sep)
    IN  IF k = 0 THEN <<s>>
        ELSE <<SubSeq(s, 1, k - 1)>> \o Split(SubSeq(s, k + 1, Len(s)), sep)

\* str.split(sep, 1): at most two segments
SplitOnce(s, sep) ==
    LET k == FirstIndex(s, sep)
    IN  IF k = 0 THEN <<s>>
        ELSE <<SubSeq(s, 1, k - 1), SubSeq(s, k + 1, Len(s))>>

\* The digits-and-underscores body int() accepts: a digit first and last, and
\* never two underscores in a row.
IsIntBody(t) ==
    /\ Len(t) >= 1
    /\ IsDigit(t[1]) /\ IsDigit(t[Len(t)])
    /\ \A i \in 1..Len(t) : IsDigit(t[i]) \/ t[i] = "_"
    /\ \A i \in 1..(Len(t) - 1) : ~(t[i] = "_" /\ t[i + 1] = "_")

RECURSIVE IntBodyVal(_, _)
IntBodyVal(t, acc) ==
    IF t = <<>> THEN acc
    ELSE IF Head(t) = "_" THEN IntBodyVal(Tail(t), acc)
    ELSE IntBodyVal(Tail(t), acc * 10 + DigitVal(Head(t)))

\* int() on a sign sg and the text body that follows it
SignedInt(sg, body) ==
    IF ~IsIntBody(body) THEN [ok |-> FALSE, val |-> 0]
    ELSE [ok  |-> TRUE,
          val |-> IF sg = "-" THEN 0 - IntBodyVal(body, 0)
                  ELSE IntBodyVal(body, 0)]

\* int() on a text t without surrounding whitespace
IntOfStripped(t) ==
    IF t # <<>> /\ t[1] \in {"+", "-"} THEN SignedInt(t[1], Tail(t))
    ELSE SignedInt("+", t)

\* int(s): surrounding whitespace, an optional sign, decimal digits with
\* single underscores between them.  ok = FALSE is ValueError.
ParseInt(s) == IntOfStripped(Strip(s))

\* ------------------------------------------------------------- MIME parser

RateKey == <<"r", "a", "t", "e", "=">>

AudioLPrefix == <<"a", "u", "d", "i", "o", "/", "L">>

\* The exceptions the two try blocks of the parser let pass: the mutant
\* handler names IndexError alone.
CaughtIndexOnly(exc) == exc = "IndexError"

\* except (ValueError, IndexError)
Caught(exc) == exc \in {"ValueError", "IndexError"}

\* int(text) inside a try block, r being what int() makes of text
IntOrValueError(r) ==
    IF r.ok THEN [exc |-> "none", val |-> r.val]
    ELSE [exc |-> "ValueError", val |-> 0]

\* int(halves[1]) inside a try block, halves being the list split returned
SecondAsInt(halves) ==
    IF Len(halves) < 2 THEN [exc |-> "IndexError", val |-> 0]
    ELSE IntOrValueError(ParseInt(halves[2]))

\* int(param.split(sep, 1)[1]) inside its try block: exc is the exception the
\* expression raises ("none" when it returns val)
TryInt(param, sep) == SecondAsInt(SplitOnce(param, sep))

\* What leaves a try block: nothing when the handler catches exc
Escapes(exc) == IF exc = "none" \/ Caught(exc) THEN "none" ELSE exc

\* The rate branch, r being the outcome of its try block
WithRate(r, bits, rate) ==
    [bits_per_sample |-> bits,
     rate   |-> IF r.exc = "none" THEN r.val ELSE rate,
     raised |-> Escapes(r.exc)]

\* The bits branch, b being the outcome of its try block
WithBits(b, bits, rate) ==
    [bits_per_sample |-> IF b.exc = "none" THEN b.val ELSE bits,
     rate   |-> rate,
     raised |-> Escapes(b.exc)]

\* Mutant of ParseStripped: the rate key is matched in lower case only
ParseStrippedCaseSensitive(param, bits, rate) ==
    IF StartsWith(param, RateKey)
    THEN WithRate(TryInt(param, "="), bits, rate)
    ELSE IF StartsWith(param, AudioLPrefix)
    THEN WithBits(TryInt(param, "L"), bits, rate)
    ELSE [bits_per_sample |-> bits, rate |-> rate, raised |-> "none"]

\* The if / elif of the loop body, on the stripped param
ParseStripped(param, bits, rate) ==
    IF StartsWith(Lower(param), RateKey)
    THEN WithRate(TryInt(param, "="), bits, rate)
    ELSE IF StartsWith(param, AudioLPrefix)
    THEN WithBits(TryInt(param, "L"), bits, rate)
    ELSE [bits_per_sample |-> bits, rate |-> rate, raised |-> "none"]

\* One pass of the loop body over param, from the values (bits, rate) so far
ParseParam(raw, bits, rate) == ParseStripped(Strip(raw), bits, rate)

RECURSIVE ParseParts(_, _, _)

\* After the pass that gave p: an exception that escaped ends the call, else
\* the loop goes on over rest
ParseRest(p, rest) ==
    IF p.raised # "none" THEN p
    ELSE ParseParts(rest, p.bits_per_sample, p.rate)

\* The for loop over parts
ParseParts(parts, bits, rate) ==
    IF parts = <<>>
    THEN [bits_per_sample |-> bits, rate |-> rate, raised |-> "none"]
    ELSE ParseRest(ParseParam(Head(parts), bits, rate), Tail(parts))

\* The mutant parser starts from zeros in place of the defaults.
parse_without_defaults(mime) == ParseParts(Split(mime, ";"), 0, 0)

\* parse_audio_mime_type: the dictionary returned, or the exception raised
parse_audio_mime_type(mime) ==
    ParseParts(Split(mime, ";"), DefaultBits, DefaultRate)

\* ------------------------------------------------------------- WAV encoder

\* struct.pack range of the formats I and H.  Every integer of the model is
\* below 2^31, so the upper bound of I is decided on byte sequences, see
\* MulLE.
FitsU32(v) == v >= 0 /\ v \div 65536 <= 65535

FitsU16(v) == v >= 0 /\ v <= 65535

Pow256(k) == IF k = 0 THEN 1 ELSE IF k = 1 THEN 256 ELSE IF k = 2 THEN 65536 ELSE 16777216

\* Mutant of LE: the bytes in big-endian order
BE(v, n) == [i \in 1..n |-> (v \div Pow256(n - i)) % 256]

\* The n little-endian bytes of v, 0 <= v < 256^n
LE(v, n) == [i \in 1..n |-> (v \div Pow256(i - 1)) % 256]

\* The little-endian bytes of (the number with bytes digits) * b + carry, as
\* many bytes as the product needs: sample_rate * block_align may pass 2^32.
RECURSIVE MulLE(_, _, _)
MulLE(digits, b, carry) ==
    IF digits = <<>>
    THEN IF carry = 0 THEN <<>>
         ELSE <<carry % 256>> \o MulLE(<<>>, b, carry \div 256)
    ELSE LET t == Head(digits) * b + carry
         IN  <<t % 256>> \o MulLE(Tail(digits), b, t \div 256)

\* The bytes of byte_rate = sample_rate * block_align, both non-negative
ByteRateLE(sample_rate, block_align) == MulLE(LE(sample_rate, 4), block_align, 0)

Ascii_RIFF == <<82, 73, 70, 70>>

Ascii_WAVE == <<87, 65, 86, 69>>

Ascii_fmt == <<102, 109, 116, 32>>

Ascii_data == <<100, 97, 116, 97>>

\* Mutant of HeaderValues: block_align counts bits
HeaderValuesBitsAlign(parameters, data_size) ==
    [bits_per_sample |-> parameters.bits_per_sample,
     sample_rate     |-> parameters.rate,
     num_channels    |-> 1,
     data_size       |-> data_size,
     block_align     |-> 1 * parameters.bits_per_sample,
     chunk_size      |-> 36 + data_size]

\* The values convert_to_wav computes from the parsed parameters and the
\* length of the payload
HeaderValues(parameters, data_size) ==
    [bits_per_sample |-> parameters.bits_per_sample,
     sample_rate     |-> parameters.rate,
     num_channels    |-> 1,
     data_size       |-> data_size,
     block_align     |-> 1 * (parameters.bits_per_sample \div 8),
     chunk_size      |-> 36 + data_size]

\* The values convert_to_wav computes before packing
WavParams(audio_data, mime) ==
    HeaderValues(parse_audio_mime_type(mime), Len(audio_data))

\* struct.pack("<4sI4s4sIHHIIHH4sI", ...) accepts the values
Packable(p) ==
    /\ FitsU32(p.chunk_size)
    /\ FitsU16(p.num_channels)
    /\ FitsU32(p.sample_rate)
    /\ FitsU16(p.block_align)
    /\ FitsU16(p.bits_per_sample)
    /\ Len(ByteRateLE(p.sample_rate, p.block_align)) <= 4
    /\ FitsU32(p.data_size)

\* The 44 bytes struct.pack returns for packable values
PackHeader(p) ==
    LET br == ByteRateLE(p.sample_rate, p.block_align)
    IN  Ascii_RIFF \o LE(p.chunk_size, 4) \o Ascii_WAVE \o Ascii_fmt
        \o LE(16, 4) \o LE(1, 2) \o LE(p.num_channels, 2)
        \o LE(p.sample_rate, 4)
        \o [i \in 1..4 |-> IF i <= Len(br) THEN br[i] ELSE 0]
        \o LE(p.block_align, 2) \o LE(p.bits_per_sample, 2)
        \o Ascii_data \o LE(p.data_size, 4)

\* struct.pack on the values p, then header + audio_data
PackOrRaise(p, audio_data) ==
    IF Packable(p)
    THEN [raised |-> "none", buf |-> PackHeader(p) \o audio_data]
    ELSE [raised |-> "struct.error", buf |-> <<>>]

\* The body of convert_to_wav after the parser's call
Encode(parameters, audio_data) ==
    IF parameters.raised # "none"
    THEN [raised |-> parameters.raised, buf |-> <<>>]
    ELSE PackOrRaise(HeaderValues(parameters, Len(audio_data)), audio_data)

\* convert_to_wav: raised = "struct.error" when struct.pack rejects a value,
\* else the header followed by the payload
convert_to_wav(audio_data, mime) ==
    Encode(parse_audio_mime_type(mime), audio_data)

\* mimetypes.guess_extension as called at src/app.py:442: of the strings of
\* the model only audio/mpeg has a known extension
GuessExtension(mime) ==
    IF Lower(mime) = Mime_Mpeg THEN Some(".mp3") ELSE None

\* ------------------------------------------------------------------- state

VARIABLES
    pc,                \* position in generate_podcast_audio / convert_to_wav
    attempt,           \* the retry loop's index, 0 .. MAX_RETRIES - 1
    all_audio_chunks,  \* the accumulation buffer, a sequence of byte strings
    mime_type,         \* Optional: the recorded MIME type
    chunk,             \* Optional: kind and MIME type of the stream element
                       \* being processed (its payload is the last of cur)
    combined_audio,    \* the assembled (then encoded) audio
    file_extension,    \* Optional: extension of the audio file
    files,             \* the files of the output directory
    outcome,           \* how the call ended: [kind, attempts, msg]
    enc_calls,         \* the MIME strings handed to convert_to_wav
    events,            \* stream opens, failures, ends and retry sleeps so far
    cur,               \* payloads the current attempt's stream has yielded
    cur_elems,         \* elements the current attempt's stream has yielded
    n_elems,           \* elements yielded since the run started
    wav_data,          \* SpecWav: payload given to convert_to_wav
    wav_mime,          \* SpecWav: MIME string given to convert_to_wav
    wav_out,           \* SpecWav: Optional result of convert_to_wav
    parse_out,         \* SpecWav: Optional result of parse_audio_mime_type
    file_name,         \* Optional: the base name both files are saved under
    req_payloads,      \* payloads yielded since the call started
    main_pc,           \* position in main's loop
    topic,             \* main: the topic entered last
    requests,          \* main: topics taken up so far
    report,            \* main: what the loop printed last about a request
    script,            \* the script handed to generate_podcast_audio
    now,               \* what get_timestamp returns while the request runs
    proceed,           \* main: the answer to the confirmation prompt
    s_pc,              \* position in generate_podcast_script
    s_attempt,         \* generate_podcast_script: index of the retry loop
    s_script,          \* generate_podcast_script: the local script
    s_log,             \* generation calls and retry waits so far
    s_result,          \* Optional: what generate_podcast_script returned
    received_chunk,    \* the flag the pulse_animation threads wait for
    pulse              \* the pulse_animation thread of each attempt so far

\* The variables of the pulse animation
pulseVars == <<received_chunk, pulse>>

\* The variables of generate_podcast_script
scriptVars == <<s_pc, s_attempt, s_script, s_log, s_result>>

\* The variables of main's loop
loopVars == <<main_pc, topic, requests, report, script, now, proceed>>

\* The variables of main's loop and of the script generation it calls
mainVars == <<loopVars, scriptVars>>

vars == <<pc, attempt, all_audio_chunks, mime_type, chunk, combined_audio,
          file_extension, files, outcome, enc_calls, events, cur, cur_elems,
          n_elems, wav_data, wav_mime, wav_out, parse_out, file_name,
          req_payloads, mainVars, pulseVars>>

\* ------------------------------------------------------------------ inputs

\* Payloads of payload-bearing elements (inline_data.data)
ChunkVals == { <<1>>, <<2, 3>> }

\* MIME types of payload-bearing elements (inline_data.mime_type)
ElemMimes ==
    { None, Some(Mime_Empty), Some(Mime_L16_24000), Some(Mime_L24_48000),
      Some(Mime_Mpeg), Some(Mime_NegRate) }

\* Elements skipped by the guard of src/app.py:370-375
SkippedKinds == {"candidates_none", "content_none", "parts_none"}

\* Elements with an empty candidates or parts list: indexing [0] raises
EmptyListKinds == {"candidates_empty", "parts_empty"}

AudioElems == [kind : {"audio"}, data : ChunkVals, mime : ElemMimes]

PlainElems ==
    [kind : SkippedKinds \cup EmptyListKinds \cup {"text"},
     data : {<<>>}, mime : {None}]

\* What the stream or the transport raises (str(e))
TransportErrors == {"timeout", "reset"}

IndexErrorMsg == "list index out of range"

\* A payload of the size of one second of 16-bit 24000 Hz audio
OneSecond == [i \in 1..48000 |-> i % 256]

\* Payloads given to convert_to_wav in SpecWav
Payloads ==
    { <<>>, <<1>>, <<2, 3>>, <<255, 0, 7>>, <<9, 9, 9, 9, 9>>, OneSecond }

ScriptText == "script"

\* A string generate_podcast_script returns for a failure; it starts with
\* f"{Fore.RED}Error:"
ScriptError == "Error: Unable to generate script"

\* What generate_podcast_script returns to main
ScriptResults == {ScriptText, ScriptError}

\* 'cats'
Topic_cats == <<"c", "a", "t", "s">>

\* 'Quit it!'
Topic_QuitIt == <<"Q", "u", "i", "t", " ", "i", "t", "!">>

\* 'quit'
Input_quit == <<"q", "u", "i", "t">>

\* ' EXIT '
Input_Exit == <<" ", "E", "X", "I", "T", " ">>

\* 'Q'
Input_Q == <<"Q">>

\* '  ', which get_user_input strips to the empty default
Input_blank == <<" ", " ">>

\* What the operator types at the topic prompt
TopicInputs ==
    {Topic_QuitIt, Input_quit, Input_Exit, Input_Q, Input_blank}

\* What the operator types at a (y/n) prompt
YesNoInputs == { <<>>, <<"y">>, <<"Y">>, <<"n">> }

\* The values get_timestamp returns during a run
Timestamps == {"20240101_000000", "20240101_000001"}

NoOutcome == [kind |-> "none", attempts |-> 0, msg |-> ""]

\* ----------------------------------------------------------------- helpers

\* bool(mime_type) for an Optional string
Truthy(m) == m # None /\ m[1] # <<>>

\* Mutant of AppendChunk: the new payload is put in front
PrependChunk(chunks, data) == <<data>> \o chunks

\* all_audio_chunks.append(inline_data.data), src/app.py:387
AppendChunk(chunks, data) == Append(chunks, data)

\* Mutant of RecordMime: the latest MIME type an element carries wins
RecordMimeLast(recorded, m) == IF m # None THEN m ELSE recorded

\* if mime_type is None: mime_type = inline_data.mime_type, src/app.py:389-390
RecordMime(recorded, m) == IF recorded = None THEN m ELSE recorded

\* combined_audio = b''; for chunk in all_audio_chunks: combined_audio += chunk
RECURSIVE CombineChunks(_)
CombineChunks(chunks) ==
    IF chunks = <<>> THEN <<>>
    ELSE Head(chunks) \o CombineChunks(Tail(chunks))

\* Mutant of CanRetry: off by one, the last attempt's failure is retried too
CanRetryAlways(a) == a < MAX_RETRIES

\* attempt < MAX_RETRIES - 1, src/app.py:406
CanRetry(a) == a < MAX_RETRIES - 1

\* Where "for attempt in range(MAX_RETRIES)" goes with the next index a
LoopNext(a) == IF a < MAX_RETRIES THEN "open" ELSE "process"

\* mime_type or "audio/L16;rate=24000", src/app.py:463
EncoderMime(m) == IF Truthy(m) THEN m[1] ELSE DefaultMime

\* Mutant of FileExtension: no extension is ever guessed
FileExtensionNever(m) == None

\* mimetypes.guess_extension(mime_type) if mime_type else None
FileExtension(m) == IF Truthy(m) THEN GuessExtension(m[1]) ELSE None

\* Characters re.sub(r'[^\w\s-]', '', topic) keeps
KeptInName(c) ==
    \/ \E i \in 1..26 : c \in {Lowers[i], Uppers[i]}
    \/ IsDigit(c)
    \/ c \in WhiteSpace \cup {"_", "-"}

\* re.sub(r'[^\w\s-]', '', topic)[:30].strip().replace(' ', '_')
Sanitize(t) ==
    LET kept == SelectSeq(t, KeptInName)
        cut  == SubSeq(kept, 1, IF Len(kept) < 30 THEN Len(kept) ELSE 30)
        body == Strip(cut)
    IN  [i \in 1..Len(body) |-> IF body[i] = " " THEN "_" ELSE body[i]]

\* file_name = f"podcast_{sanitized_topic}_{timestamp}"
FileName(t, ts) == [topic |-> Sanitize(t), ts |-> ts]

\* open(full_path, "w" or "wb") and write: the file of that name is replaced
WriteFile(fs, f) ==
    {g \in fs : ~(g.base = f.base /\ g.ext = f.ext)} \cup {f}

\* get_user_input(prompt, default): the stripped line, or the default
get_user_input(line, default) ==
    IF Strip(line) # <<>> THEN Strip(line) ELSE default

\* topic.lower() in ['quit', 'exit', 'q', '']
QuitWords ==
    {Input_quit, <<"e", "x", "i", "t">>, <<"q">>, <<>>}

IsQuit(t) == Lower(t) \in QuitWords

\* script.startswith(f"{Fore.RED}Error:")
IsErrorMarked(s) == s = ScriptError

\* proceed.lower() == 'y' and play_audio.lower() == 'y'
IsYes(a) == Lower(a) = <<"y">>

\* -------------------------------------------------- generate_podcast_audio

Event(kind, msg) ==
    [kind |-> kind, attempt |-> attempt + 1, msg |-> msg,
     delay |-> IF kind = "sleep" THEN RETRY_DELAY ELSE 0]

wav_idle == wav_data = <<>> /\ wav_mime = DefaultMime /\ wav_out = None

\* generate_podcast_script is not running
script_idle ==
    /\ s_pc = "idle"
    /\ s_attempt = 0
    /\ s_script = <<>>
    /\ s_log = <<>>
    /\ s_result = None

\* main is not running: the function under study is called on its own
main_idle ==
    /\ main_pc = "none"
    /\ topic = <<>>
    /\ requests = 0
    /\ report = "none"
    /\ script = ""
    /\ now = "20240101_000000"
    /\ proceed = <<>>
    /\ script_idle

\* The state when the retry loop is entered: the buffer and the recorded MIME
\* type are created once per call, before the loop.
Init ==
    /\ pc = "open"
    /\ attempt = 0
    /\ all_audio_chunks = <<>>
    /\ mime_type = None
    /\ chunk = None
    /\ combined_audio = <<>>
    /\ file_extension = None
    /\ files = {}
    /\ outcome = NoOutcome
    /\ enc_calls = <<>>
    /\ events = <<>>
    /\ cur = <<>>
    /\ cur_elems = 0
    /\ n_elems = 0
    /\ wav_idle
    /\ parse_out = None
    /\ file_name = None
    /\ req_payloads = <<>>
    /\ received_chunk = FALSE
    /\ pulse = <<>>
    /\ main_pc = "none"
    /\ topic = Topic_cats
    /\ requests = 0
    /\ report = "none"
    /\ script = ScriptText
    /\ now = "20240101_000000"
    /\ proceed = <<>>
    /\ script_idle

\* One iteration of the retry loop starts: the flag is cleared, the pulse
\* thread of the attempt is started and the stream is opened
OpenStream ==
    /\ pc = "open"
    /\ pc' = "streaming"
    /\ events' = Append(events, Event("open", ""))
    /\ chunk' = None
    /\ cur' = <<>>
    /\ cur_elems' = 0
    /\ received_chunk' = FALSE
    /\ pulse' = Append(pulse, "running")
    /\ UNCHANGED <<attempt, all_audio_chunks, mime_type, combined_audio,
                   file_extension, files, outcome, enc_calls, n_elems,
                   wav_data, wav_mime, wav_out,
                   parse_out, file_name, req_payloads, mainVars>>

\* The elements a run may still yield: generate_podcast_audio called on its
\* own, or by main
ElemBound == IF main_pc = "none" THEN MaxElems ELSE MaxSessionElems

\* The stream yields e: the bookkeeping every element shares
Yield(e) ==
    /\ pc = "streaming"
    /\ n_elems < ElemBound
    /\ chunk' = Some([kind |-> e.kind, mime |-> e.mime])
    /\ cur_elems' = cur_elems + 1
    /\ n_elems' = n_elems + 1

\* candidates, content or parts is None: continue
ElemSkipped(e) ==
    /\ e.kind \in SkippedKinds
    /\ Yield(e)
    /\ UNCHANGED <<pc, attempt, all_audio_chunks, mime_type, combined_audio,
                   file_extension, files, outcome, enc_calls, events, cur,
                   wav_data, wav_mime, wav_out,
                   parse_out, file_name, req_payloads, mainVars, pulseVars>>

\* parts[0] has no inline_data: its text, if any, is written to the console
ElemText(e) ==
    /\ e.kind = "text"
    /\ Yield(e)
    /\ UNCHANGED <<pc, attempt, all_audio_chunks, mime_type, combined_audio,
                   file_extension, files, outcome, enc_calls, events, cur,
                   wav_data, wav_mime, wav_out,
                   parse_out, file_name, req_payloads, mainVars, pulseVars>>

\* parts[0] has inline_data: the flag is set, its bytes are appended, its
\* MIME type recorded if none is recorded yet
ElemAudio(e) ==
    /\ e.kind = "audio"
    /\ Yield(e)
    /\ all_audio_chunks' = AppendChunk(all_audio_chunks, e.data)
    /\ mime_type' = RecordMime(mime_type, e.mime)
    /\ cur' = Append(cur, e.data)
    /\ req_payloads' = Append(req_payloads, e.data)
    /\ received_chunk' = TRUE
    /\ UNCHANGED <<pc, attempt, combined_audio, file_extension, files,
                   outcome, enc_calls, events, wav_data, wav_mime, wav_out,
                   parse_out, file_name, mainVars, pulse>>

\* The except clause of the retry loop, for an exception with str(e) = msg
Except(msg) ==
    /\ events' = Append(events, Event("fail", msg))
    /\ IF CanRetry(attempt)
       THEN pc' = "retry_sleep" /\ UNCHANGED outcome
       ELSE /\ pc' = "raised"
            /\ outcome' = [kind |-> "generation_failed",
                           attempts |-> MAX_RETRIES, msg |-> msg]
    /\ UNCHANGED <<attempt, all_audio_chunks, mime_type, combined_audio,
                   file_extension, files, enc_calls, cur, wav_data, wav_mime, wav_out,
                   parse_out, file_name, req_payloads, mainVars, pulseVars>>

\* candidates == [] or parts == []: the guard's [0] raises IndexError
ElemIndexError(e) ==
    /\ e.kind \in EmptyListKinds
    /\ Yield(e)
    /\ Except(IndexErrorMsg)

\* The stream call or the iteration raises a transport error
StreamRaise(err) ==
    /\ pc = "streaming"
    /\ Except(err)
    /\ UNCHANGED <<chunk, cur_elems, n_elems>>

\* Mutant of StreamEnd: the break is missing, the loop goes on
StreamEndNoBreak ==
    /\ pc = "streaming"
    /\ pc' = LoopNext(attempt + 1)
    /\ attempt' = attempt + 1
    /\ events' = Append(events, Event("end", ""))
    /\ UNCHANGED <<all_audio_chunks, mime_type, chunk, combined_audio,
                   file_extension, files, outcome, enc_calls, cur, cur_elems,
                   n_elems, wav_data, wav_mime, wav_out,
                   parse_out, file_name, req_payloads, mainVars, pulseVars>>

\* The stream is exhausted: progress_bar.close(); break
StreamEnd ==
    /\ pc = "streaming"
    /\ pc' = "process"
    /\ events' = Append(events, Event("end", ""))
    /\ UNCHANGED <<attempt, all_audio_chunks, mime_type, chunk,
                   combined_audio, file_extension, files, outcome, enc_calls,
                   cur, cur_elems, n_elems, wav_data, wav_mime, wav_out,
                   parse_out, file_name, req_payloads, mainVars, pulseVars>>

\* Mutant of RetrySleep: the delay grows with the attempt number
RetrySleepBackoff ==
    /\ pc = "retry_sleep"
    /\ events' = Append(events, [Event("sleep", "") EXCEPT
                                    !.delay = RETRY_DELAY * (attempt + 1)])
    /\ attempt' = attempt + 1
    /\ pc' = LoopNext(attempt + 1)
    /\ UNCHANGED <<all_audio_chunks, mime_type, chunk, combined_audio,
                   file_extension, files, outcome, enc_calls, cur, cur_elems,
                   n_elems, wav_data, wav_mime, wav_out,
                   parse_out, file_name, req_payloads, mainVars, pulseVars>>

\* time.sleep(RETRY_DELAY) returns and the loop goes to its next index
RetrySleep ==
    /\ pc = "retry_sleep"
    /\ events' = Append(events, Event("sleep", ""))
    /\ attempt' = attempt + 1
    /\ pc' = LoopNext(attempt + 1)
    /\ UNCHANGED <<all_audio_chunks, mime_type, chunk, combined_audio,
                   file_extension, files, outcome, enc_calls, cur, cur_elems,
                   n_elems, wav_data, wav_mime, wav_out,
                   parse_out, file_name, req_payloads, mainVars, pulseVars>>

\* Mutant of Process: the script is saved before the empty check
ProcessSavesFirst ==
    /\ pc = "process"
    /\ files' = WriteFile(files, [base |-> FileName(topic, now),
                                  ext |-> ".txt", text |-> script,
                                  data |-> <<>>])
    /\ IF all_audio_chunks = <<>>
       THEN /\ pc' = "raised"
            /\ outcome' = [kind |-> "no_audio", attempts |-> 0,
                           msg |-> "No audio was generated"]
            /\ UNCHANGED combined_audio
       ELSE /\ pc' = "save_script"
            /\ combined_audio' = CombineChunks(all_audio_chunks)
            /\ UNCHANGED outcome
    /\ UNCHANGED <<attempt, all_audio_chunks, mime_type, chunk,
                   file_extension, enc_calls, events, cur, cur_elems,
                   n_elems, wav_data, wav_mime, wav_out, parse_out, file_name,
                   req_payloads, mainVars, pulseVars>>

\* After the loop: the empty check, then the chunks are combined
Process ==
    /\ pc = "process"
    /\ IF all_audio_chunks = <<>>
       THEN /\ pc' = "raised"
            /\ outcome' = [kind |-> "no_audio", attempts |-> 0,
                           msg |-> "No audio was generated"]
            /\ UNCHANGED combined_audio
       ELSE /\ pc' = "save_script"
            /\ combined_audio' = CombineChunks(all_audio_chunks)
            /\ UNCHANGED outcome
    /\ UNCHANGED <<attempt, all_audio_chunks, mime_type, chunk,
                   file_extension, files, enc_calls, events, cur, cur_elems,
                   n_elems, wav_data, wav_mime, wav_out,
                   parse_out, file_name, req_payloads, mainVars, pulseVars>>

\* The base name is made from the topic and the time of day, then
\* save_text_file(f"{file_name}.txt", script)
SaveScript ==
    /\ pc = "save_script"
    /\ file_name' = Some(FileName(topic, now))
    /\ files' = WriteFile(files, [base |-> FileName(topic, now),
                                  ext |-> ".txt", text |-> script,
                                  data |-> <<>>])
    /\ pc' = "convert"
    /\ UNCHANGED <<attempt, all_audio_chunks, mime_type, chunk,
                   combined_audio, file_extension, outcome, enc_calls, events,
                   cur, cur_elems, n_elems, wav_data, wav_mime, wav_out,
                   parse_out, req_payloads, mainVars, pulseVars>>

\* What convert_to_wav's outcome r does to the call
Encoded(r) ==
    IF r.raised = "none"
    THEN /\ combined_audio' = r.buf
         /\ pc' = "save_audio"
         /\ UNCHANGED outcome
    ELSE /\ pc' = "raised"
         /\ outcome' = [kind |-> "struct_error", attempts |-> 0,
                        msg |-> r.raised]
         /\ UNCHANGED combined_audio

\* The extension is guessed; without one the audio is encoded as WAV
Convert ==
    /\ pc = "convert"
    /\ IF FileExtension(mime_type) # None
       THEN /\ file_extension' = FileExtension(mime_type)
            /\ pc' = "save_audio"
            /\ UNCHANGED <<combined_audio, enc_calls, outcome>>
       ELSE /\ file_extension' = Some(".wav")
            /\ enc_calls' = Append(enc_calls, EncoderMime(mime_type))
            /\ Encoded(convert_to_wav(combined_audio, EncoderMime(mime_type)))
    /\ UNCHANGED <<attempt, all_audio_chunks, mime_type, chunk, files, events,
                   cur, cur_elems, n_elems, wav_data, wav_mime, wav_out,
                   parse_out, file_name, req_payloads, mainVars, pulseVars>>

\* save_binary_file(f"{file_name}{file_extension}", combined_audio); return
SaveAudio ==
    /\ pc = "save_audio"
    /\ files' = WriteFile(files, [base |-> file_name[1],
                                  ext |-> file_extension[1], text |-> "",
                                  data |-> combined_audio])
    /\ pc' = "returned"
    /\ outcome' = [kind |-> "returned", attempts |-> 0, msg |-> ""]
    /\ UNCHANGED <<attempt, all_audio_chunks, mime_type, chunk,
                   combined_audio, file_extension, enc_calls, events, cur,
                   cur_elems, n_elems, wav_data, wav_mime, wav_out,
                   parse_out, file_name, req_payloads, mainVars, pulseVars>>

Next ==
    \/ OpenStream
    \/ \E e \in PlainElems : ElemSkipped(e)
    \/ \E e \in PlainElems : ElemText(e)
    \/ \E e \in AudioElems : ElemAudio(e)
    \/ \E e \in PlainElems : ElemIndexError(e)
    \/ \E err \in TransportErrors : StreamRaise(err)
    \/ StreamEnd
    \/ RetrySleep
    \/ Process
    \/ SaveScript
    \/ Convert
    \/ SaveAudio

Spec == Init /\ [][Next]_vars

\* ------------------------------------------------------- pulse animation

\* The pulse_animation thread of attempt i evaluates "while not
\* received_chunk" and finds the flag set: it returns.  While the flag is
\* clear the thread redraws the postfix, sleeps and looks again, which
\* changes nothing here.
PulseExit(i) ==
    /\ pulse[i] = "running"
    /\ received_chunk
    /\ pulse' = [pulse EXCEPT ![i] = "done"]
    /\ UNCHANGED <<pc, attempt, all_audio_chunks, mime_type, chunk,
                   combined_audio, file_extension, files, outcome, enc_calls,
                   events, cur, cur_elems, n_elems, wav_data, wav_mime,
                   wav_out, parse_out, file_name, req_payloads, mainVars,
                   received_chunk>>

\* generate_podcast_audio and the threads it starts
NextPulse ==
    \/ Next
    \/ \E i \in DOMAIN pulse : PulseExit(i)

SpecPulse == Init /\ [][NextPulse]_vars

\* ------------------------------------------------------------- main loop

\* The state when main enters its while loop
InitMain ==
    /\ pc = "idle"
    /\ attempt = 0
    /\ all_audio_chunks = <<>>
    /\ mime_type = None
    /\ chunk = None
    /\ combined_audio = <<>>
    /\ file_extension = None
    /\ files = {}
    /\ outcome = NoOutcome
    /\ enc_calls = <<>>
    /\ events = <<>>
    /\ cur = <<>>
    /\ cur_elems = 0
    /\ n_elems = 0
    /\ wav_idle
    /\ parse_out = None
    /\ file_name = None
    /\ req_payloads = <<>>
    /\ received_chunk = FALSE
    /\ pulse = <<>>
    /\ main_pc = "prompt"
    /\ topic = <<>>
    /\ requests = 0
    /\ report = "none"
    /\ script = ""
    /\ now = "20240101_000000"
    /\ proceed = <<>>
    /\ script_idle

\* What a step of main outside generate_podcast_audio leaves alone
callVars ==
    <<pc, attempt, all_audio_chunks, mime_type, chunk, combined_audio,
      file_extension, files, outcome, enc_calls, events, cur, cur_elems,
      n_elems, wav_data, wav_mime, wav_out, parse_out, file_name,
      req_payloads, pulseVars>>

\* The topic prompt: a quit word leaves the loop, any other line is a topic
PromptTopic(line) ==
    /\ main_pc = "prompt"
    /\ topic' = get_user_input(line, <<>>)
    /\ IF IsQuit(topic')
       THEN /\ main_pc' = "exited"
            /\ UNCHANGED <<requests, now>>
       ELSE /\ requests < MaxRequests
            /\ main_pc' = "script"
            /\ requests' = requests + 1
            /\ now' \in Timestamps
    /\ UNCHANGED <<report, script, proceed, scriptVars, callVars>>

\* Mutant of GenerateScript: the error marker is not looked at
GenerateScriptUnchecked(s) ==
    /\ main_pc = "script"
    /\ script' = s
    /\ main_pc' = "confirm"
    /\ UNCHANGED <<topic, requests, report, now, proceed, scriptVars, callVars>>

\* generate_podcast_script returns s; an error-marked s is printed and the
\* loop continues
GenerateScript(s) ==
    /\ main_pc = "script"
    /\ script' = s
    /\ IF IsErrorMarked(s)
       THEN main_pc' = "prompt" /\ report' = "script_error"
       ELSE main_pc' = "confirm" /\ UNCHANGED report
    /\ UNCHANGED <<topic, requests, now, proceed, scriptVars, callVars>>

\* Mutant of CallAudio: the buffer and the MIME type outlive the call
CallAudioSharedBuffer ==
    /\ pc' = "open"
    /\ attempt' = 0
    /\ req_payloads' = <<>>
    /\ UNCHANGED <<all_audio_chunks, mime_type, pulseVars>>

\* generate_podcast_audio is entered: its locals are created
CallAudio ==
    /\ pc' = "open"
    /\ attempt' = 0
    /\ all_audio_chunks' = <<>>
    /\ mime_type' = None
    /\ req_payloads' = <<>>
    /\ UNCHANGED pulseVars

\* The "Generate audio for this script?" prompt, default y
Confirm(line) ==
    /\ main_pc = "confirm"
    /\ proceed' = get_user_input(line, <<"y">>)
    /\ main_pc' = "proceed"
    /\ UNCHANGED <<topic, requests, report, script, now, scriptVars, callVars>>

\* if proceed.lower() == 'y': generate_podcast_audio is called.  The answer
\* is not read after this test: it is assigned again before the next one.
Proceed ==
    /\ main_pc = "proceed"
    /\ proceed' = <<>>
    /\ IF IsYes(proceed)
       THEN /\ main_pc' = "audio"
            /\ CallAudio
            /\ UNCHANGED report
       ELSE /\ main_pc' = "prompt"
            /\ report' = "declined"
            /\ UNCHANGED <<pc, attempt, all_audio_chunks, mime_type,
                           req_payloads, pulseVars>>
    /\ UNCHANGED <<topic, requests, script, now, scriptVars, chunk,
                   combined_audio,
                   file_extension, files, outcome, enc_calls, events, cur,
                   cur_elems, n_elems, wav_data, wav_mime, wav_out, parse_out,
                   file_name>>

\* The call is over: what was recorded about it is dropped.  The pulse
\* threads of a call are followed in SpecPulse, not across the calls of main.
CallOver ==
    /\ pc' = "idle"
    /\ chunk' = None
    /\ combined_audio' = <<>>
    /\ file_extension' = None
    /\ outcome' = NoOutcome
    /\ enc_calls' = <<>>
    /\ events' = <<>>
    /\ cur' = <<>>
    /\ cur_elems' = 0
    /\ file_name' = None
    /\ received_chunk' = FALSE
    /\ pulse' = <<>>
    /\ UNCHANGED <<attempt, all_audio_chunks, mime_type, files, n_elems,
                   wav_data, wav_mime, wav_out, parse_out, req_payloads>>

\* generate_podcast_audio returned the two paths
AudioReturn ==
    /\ main_pc = "audio"
    /\ pc = "returned"
    /\ main_pc' = "play"
    /\ CallOver
    /\ UNCHANGED <<topic, requests, report, script, now, proceed, scriptVars>>

\* The "play the audio now?" prompt, default n
PlayPrompt(line) ==
    /\ main_pc = "play"
    /\ main_pc' = "prompt"
    /\ report' = IF IsYes(get_user_input(line, <<"n">>))
                 THEN "played" ELSE "done"
    /\ UNCHANGED <<topic, requests, script, now, proceed, scriptVars, callVars>>

\* Mutant of AudioRaise: the exception leaves main
AudioRaiseUncaught ==
    /\ main_pc = "audio"
    /\ pc = "raised"
    /\ main_pc' = "exited"
    /\ report' = "audio_error"
    /\ CallOver
    /\ UNCHANGED <<topic, requests, script, now, proceed, scriptVars>>

\* generate_podcast_audio raised: except Exception prints the message
AudioRaise ==
    /\ main_pc = "audio"
    /\ pc = "raised"
    /\ main_pc' = "prompt"
    /\ report' = "audio_error"
    /\ CallOver
    /\ UNCHANGED <<topic, requests, script, now, proceed, scriptVars>>

NextMain ==
    \/ \E line \in TopicInputs : PromptTopic(line)
    \/ \E s \in ScriptResults : GenerateScript(s)
    \/ \E line \in YesNoInputs : Confirm(line)
    \/ Proceed
    \/ AudioReturn
    \/ \E line \in YesNoInputs : PlayPrompt(line)
    \/ AudioRaise
    \/ Next

SpecMain == InitMain /\ [][NextMain]_vars

\* ------------------------------------------- convert_to_wav on its own

InitWav ==
    /\ pc = "parse_call"
    /\ attempt = 0
    /\ all_audio_chunks = <<>>
    /\ mime_type = None
    /\ chunk = None
    /\ combined_audio = <<>>
    /\ file_extension = None
    /\ files = {}
    /\ outcome = NoOutcome
    /\ enc_calls = <<>>
    /\ events = <<>>
    /\ cur = <<>>
    /\ cur_elems = 0
    /\ n_elems = 0
    /\ wav_data \in Payloads
    /\ wav_mime \in MimeStrings
    /\ wav_out = None
    /\ parse_out = None
    /\ file_name = None
    /\ req_payloads = <<>>
    /\ received_chunk = FALSE
    /\ pulse = <<>>
    /\ main_idle

\* parse_audio_mime_type(wav_mime) is called
ParseCall ==
    /\ pc = "parse_call"
    /\ parse_out' = Some(parse_audio_mime_type(wav_mime))
    /\ pc' = "wav_call"
    /\ UNCHANGED <<attempt, all_audio_chunks, mime_type, chunk,
                   combined_audio, file_extension, files, outcome, enc_calls,
                   events, cur, cur_elems, n_elems, wav_data, wav_mime,
                   wav_out, file_name, req_payloads, mainVars, pulseVars>>

\* convert_to_wav(wav_data, wav_mime) is called
WavCall ==
    /\ pc = "wav_call"
    /\ wav_out' = Some(convert_to_wav(wav_data, wav_mime))
    /\ pc' = "wav_ret"
    /\ UNCHANGED <<attempt, all_audio_chunks, mime_type, chunk,
                   combined_audio, file_extension, files, outcome, enc_calls,
                   events, cur, cur_elems, n_elems, wav_data, wav_mime,
                   parse_out, file_name, req_payloads, mainVars, pulseVars>>

NextWav ==
    \/ ParseCall
    \/ WavCall

SpecWav == InitWav /\ [][NextWav]_vars

\* ------------------------------------------------ generate_podcast_script

\* 'content_filter'
ContentFilter == <<"c", "o", "n", "t", "e", "n", "t", "_", "f", "i", "l", "t", "e", "r">>

\* response.text of the primary call: None, '', ' ', ' Hi. ', 'Hi'
PrimaryTexts ==
    {None, Some(<<>>), Some(<<" ">>), Some(<<" ", "H", "i", ".", " ">>),
     Some(<<"H", "i">>)}

\* completion_response.text: None, ' ', ' Bye. '
CompletionTexts ==
    {None, Some(<<" ">>), Some(<<" ", "B", "y", "e", ".", " ">>)}

\* str(e) of the exceptions a generation call raises: 'timed out',
\* 'content_filter', 'Blocked: CONTENT_Filter'
ScriptErrors ==
    {<<"t", "i", "m", "e", "d", " ", "o", "u", "t">>,
     ContentFilter,
     <<"B", "l", "o", "c", "k", "e", "d", ":", " ", "C", "O", "N", "T", "E", "N", "T", "_", "F", "i", "l", "t", "e", "r">>}

\* sub in s
Contains(s, sub) ==
    \E i \in 0..(Len(s) - Len(sub)) : SubSeq(s, i + 1, i + Len(sub)) = sub

\* str.endswith(suffix)
EndsWith(s, suffix) ==
    Len(s) >= Len(suffix)
        /\ SubSeq(s, Len(s) - Len(suffix) + 1, Len(s)) = suffix

\* str.rstrip()
RStrip(s) ==
    LET keep == {i \in 1..Len(s) : s[i] \notin WhiteSpace}
    IN  IF keep = {} THEN <<>>
        ELSE SubSeq(s, 1, CHOOSE i \in keep : \A j \in keep : j <= i)

\* ('.', '!', '?')
SentenceEnds == {<<".">>, <<"!">>, <<"?">>}

\* ('ni', 'at', 'ang', 'ng', 'sa')
CutOffEnds ==
    {<<"n", "i">>, <<"a", "t">>, <<"a", "n", "g">>, <<"n", "g">>,
     <<"s", "a">>}

\* not response.text or response.text.strip() == ""
IsEmptyResponse(text) == text = None \/ text[1] = <<>> \/ Strip(text[1]) = <<>>

\* The script appears cut off
NeedsCompletion(sc) ==
    \/ ~(\E e \in SentenceEnds : EndsWith(sc, e))
    \/ \E e \in CutOffEnds : EndsWith(RStrip(sc), e)

\* Mutant of IsFilterError: the message is not lower-cased
IsFilterErrorCaseSensitive(msg) == Contains(msg, ContentFilter)

\* "content_filter" in error_message.lower()
IsFilterError(msg) == Contains(Lower(msg), ContentFilter)

\* Mutant of ScriptCanRetry: the last attempt's failure is retried too
ScriptCanRetryAlways(a) == a < MAX_RETRIES

\* attempt < MAX_RETRIES - 1
ScriptCanRetry(a) == a < MAX_RETRIES - 1

\* What generate_podcast_script returns: the script, or one of its three
\* strings that start with Fore.RED + "Error:"
\* script
ScriptReturn(sc) == [kind |-> "script", text |-> sc]

\* f"{Fore.RED}Error: Unable to generate script in {language_choice} ..."
UnableError == [kind |-> "error_unable", text |-> <<>>]

\* f"{Fore.RED}Error: The topic may contain sensitive content ..."
SensitiveError == [kind |-> "error_sensitive", text |-> <<>>]

\* f"{Fore.RED}Error: {error_message}. Please try a different topic."
FailedError(msg) == [kind |-> "error_message", text |-> msg]

\* The returned string starts with Fore.RED + "Error:"
IsErrorString(r) ==
    r.kind \in {"error_unable", "error_sensitive", "error_message"}

\* A generation call, or a retry wait, of the current attempt
ScriptEvent(kind, detail) ==
    [kind |-> kind, attempt |-> s_attempt + 1, detail |-> detail,
     delay |-> IF kind = "sleep" THEN RETRY_DELAY ELSE 0]

\* The primary call returned no text (None), or a text that is empty once
\* stripped
EmptyEvent(text) ==
    IF text = None THEN ScriptEvent("no_text", <<>>)
    ELSE ScriptEvent("empty", text[1])

\* The state when the retry loop of generate_podcast_script is entered
InitScript ==
    /\ pc = "idle"
    /\ attempt = 0
    /\ all_audio_chunks = <<>>
    /\ mime_type = None
    /\ chunk = None
    /\ combined_audio = <<>>
    /\ file_extension = None
    /\ files = {}
    /\ outcome = NoOutcome
    /\ enc_calls = <<>>
    /\ events = <<>>
    /\ cur = <<>>
    /\ cur_elems = 0
    /\ n_elems = 0
    /\ wav_idle
    /\ parse_out = None
    /\ file_name = None
    /\ req_payloads = <<>>
    /\ received_chunk = FALSE
    /\ pulse = <<>>
    /\ main_pc = "none"
    /\ topic = Topic_cats
    /\ requests = 0
    /\ report = "none"
    /\ script = ""
    /\ now = "20240101_000000"
    /\ proceed = <<>>
    /\ s_pc = "call"
    /\ s_attempt = 0
    /\ s_script = <<>>
    /\ s_log = <<>>
    /\ s_result = None

\* return
ScriptReturns(r) ==
    /\ s_pc' = "returned"
    /\ s_result' = Some(r)

\* An empty response: wait and continue, or give up on the last attempt
EmptyResponse ==
    IF ScriptCanRetry(s_attempt)
    THEN s_pc' = "sleep" /\ UNCHANGED <<s_result, s_script>>
    ELSE ScriptReturns(UnableError) /\ UNCHANGED s_script

\* script = response.text.strip(): returned as it is, or completed first
GotScript(sc) ==
    /\ s_script' = sc
    /\ IF NeedsCompletion(sc)
       THEN s_pc' = "completion" /\ UNCHANGED s_result
       ELSE ScriptReturns(ScriptReturn(sc))

\* The primary generate_content call returns a response with this text
PrimaryReturns(text) ==
    /\ s_pc = "call"
    /\ IF IsEmptyResponse(text)
       THEN /\ s_log' = Append(s_log, EmptyEvent(text))
            /\ EmptyResponse
       ELSE /\ s_log' = Append(s_log, ScriptEvent("text", text[1]))
            /\ GotScript(Strip(text[1]))
    /\ UNCHANGED <<s_attempt, callVars, loopVars>>

\* The primary call raises: the except clause of the retry loop
PrimaryRaises(msg) ==
    /\ s_pc = "call"
    /\ s_log' = Append(s_log, ScriptEvent("raised", msg))
    /\ IF IsFilterError(msg)
       THEN ScriptReturns(SensitiveError)
       ELSE IF ScriptCanRetry(s_attempt)
            THEN s_pc' = "sleep" /\ UNCHANGED s_result
            ELSE ScriptReturns(FailedError(msg))
    /\ UNCHANGED <<s_attempt, s_script, callVars, loopVars>>

\* Where "for attempt in range(MAX_RETRIES)" goes with the next index a: to
\* the next primary call, or past the loop, where the function ends without
\* a return statement
ScriptLoopNext(a) == IF a < MAX_RETRIES THEN "call" ELSE "fell_through"

\* time.sleep(RETRY_DELAY) returns and the loop goes to its next index
ScriptRetrySleep ==
    /\ s_pc = "sleep"
    /\ s_log' = Append(s_log, ScriptEvent("sleep", <<>>))
    /\ s_attempt' = s_attempt + 1
    /\ s_pc' = ScriptLoopNext(s_attempt + 1)
    /\ UNCHANGED <<s_script, s_result, callVars, loopVars>>

\* script += "\n" + completion_response.text.strip(), if there is such a text
WithConclusion(sc, text) ==
    IF text # None /\ text[1] # <<>> /\ Strip(text[1]) # <<>>
    THEN sc \o <<"\n">> \o Strip(text[1])
    ELSE sc

\* The completion call returns a response with this text
CompletionReturns(text) ==
    /\ s_pc = "completion"
    /\ s_log' = Append(s_log, ScriptEvent("completion",
                                          IF text = None THEN <<>> ELSE text[1]))
    /\ s_script' = WithConclusion(s_script, text)
    /\ ScriptReturns(ScriptReturn(s_script'))
    /\ UNCHANGED <<s_attempt, callVars, loopVars>>

\* The completion call raises: the inner except clause prints a note and the
\* script is returned as it is
CompletionRaises(msg) ==
    /\ s_pc = "completion"
    /\ s_log' = Append(s_log, ScriptEvent("completion_raised", msg))
    /\ ScriptReturns(ScriptReturn(s_script))
    /\ UNCHANGED <<s_attempt, s_script, callVars, loopVars>>

NextScript ==
    \/ \E text \in PrimaryTexts : PrimaryReturns(text)
    \/ \E msg \in ScriptErrors : PrimaryRaises(msg)
    \/ ScriptRetrySleep
    \/ \E text \in CompletionTexts : CompletionReturns(text)
    \/ \E msg \in ScriptErrors : CompletionRaises(msg)

SpecScript == InitScript /\ [][NextScript]_vars

\* ------------------------------------------------------------------ claims

EventsOf(kind) == {i \in DOMAIN events : events[i].kind = kind}

LastKind == IF events = <<>> THEN "none" ELSE events[Len(events)].kind

\* The bytes of a sequence of payloads, one after the other
RECURSIVE Flatten(_)
Flatten(seq) ==
    IF seq = <<>> THEN <<>> ELSE Flatten(SubSeq(seq, 1, Len(seq) - 1)) \o seq[Len(seq)]

\* The step is a failure of the current attempt
FailedNow ==
    Len(events') = Len(events) + 1 /\ events'[Len(events')].kind = "fail"

\* The step processes one stream element
YieldedNow == n_elems' = n_elems + 1

\* C1: every retry starts with an empty accumulation buffer, and the audio
\* assembled after the loop holds only the payloads of the attempt that
\* terminated normally.
C1_RetryStartsEmpty ==
    /\ (pc = "streaming" /\ cur_elems = 0) => all_audio_chunks = <<>>
    /\ pc = "save_script" => combined_audio = Flatten(cur)

\* C2: when the first attempt terminates normally with n >= 1 payloads
\* c1..cn, interleaved with payload-free elements, the buffer convert_to_wav
\* returns is 44 bytes followed by exactly c1 || ... || cn.
C2_PayloadRegion ==
    (pc = "save_audio" /\ enc_calls # <<>> /\ attempt = 0) =>
        /\ Len(cur) >= 1
        /\ Len(combined_audio) = 44 + Len(Flatten(cur))
        /\ SubSeq(combined_audio, 45, Len(combined_audio)) = Flatten(cur)

\* C2's case: two different payloads and a payload-free element, encoded
C2_Witness ==
    /\ pc = "save_audio" /\ enc_calls # <<>> /\ attempt = 0
    /\ Len(cur) = 2 /\ cur[1] # cur[2] /\ cur_elems = 3

\* C3: an attempt that terminates normally without any payload ends the
\* request with the no-audio error, and convert_to_wav is not invoked.
C3_EmptyStreamIsNoAudio ==
    (LastKind = "end" /\ cur = <<>>) =>
        /\ enc_calls = <<>>
        /\ pc \in {"process", "raised"}
        /\ pc = "raised" => outcome.kind = "no_audio"

\* C4: when all MAX_RETRIES attempts fail, the stream was opened exactly 3
\* times, a RETRY_DELAY sleep lies between consecutive attempts and none
\* follows the last, and the call raises the failure naming 3 attempts and
\* the last attempt's error.
C4_RetryExhaustion ==
    Cardinality(EventsOf("fail")) >= 3 =>
        /\ Len(events) = 8
        /\ \A k \in 1..3 :
              /\ events[3 * k - 2].kind = "open"
              /\ events[3 * k - 2].attempt = k
              /\ events[3 * k - 1].kind = "fail"
        /\ \A k \in 1..2 :
              events[3 * k].kind = "sleep" /\ events[3 * k].delay = RETRY_DELAY
        /\ pc = "raised"
        /\ outcome = [kind |-> "generation_failed", attempts |-> 3,
                      msg |-> events[8].msg]

\* C4's case: three transport errors, the last differing from the first
C4_Witness ==
    /\ pc = "raised" /\ outcome.kind = "generation_failed"
    /\ \A i \in EventsOf("fail") : events[i].msg \in TransportErrors
    /\ events[2].msg # outcome.msg

C6_AttemptsSequential ==
    /\ Cardinality(EventsOf("open")) <= 3
    /\ \A i \in EventsOf("open") :
          i > 1 => /\ i >= 4
                   /\ events[i - 1].kind = "sleep"
                   /\ events[i - 2].kind = "fail"
                   /\ events[i - 3].kind = "open"
    /\ \A i \in EventsOf("end") : i = Len(events)

\* C6's case: the third attempt terminated normally
C6_Witness ==
    Cardinality(EventsOf("open")) = 3 /\ LastKind = "end" /\ pc = "returned"

\* C7: after a stream that terminated normally without any payload no stream
\* is opened and no retry sleep happens, and the next step raises the
\* no-audio error.
C7_EmptyStreamNotRetried ==
    /\ \A i \in EventsOf("end") : i = Len(events)
    /\ (EventsOf("end") # {} /\ cur = <<>>) =>
           (pc = "process" \/ (pc = "raised" /\ outcome.kind = "no_audio"))

\* The recorded MIME type changes only from None, and then to the MIME type
\* of the payload-bearing element being processed; such an element records
\* its MIME type whenever none is recorded.
MimeFirstWins ==
    /\ mime_type # None => mime_type' = mime_type
    /\ (mime_type = None /\ mime_type' # None) =>
           /\ YieldedNow /\ chunk'[1].kind = "audio"
           /\ chunk'[1].mime = mime_type'
    /\ (YieldedNow /\ chunk'[1].kind = "audio" /\ mime_type = None) =>
           mime_type' = chunk'[1].mime

\* C8 as stated: the recorded MIME type is set by the first payload-bearing
\* element carrying one, never overwritten, and it is the string handed to
\* convert_to_wav.
C8_RecordedMimeToEncoder ==
    /\ [][MimeFirstWins]_vars
    /\ [](\A i \in DOMAIN enc_calls :
             mime_type # None => enc_calls[i] = mime_type[1])

\* C8 amended: as C8, but convert_to_wav is handed the recorded MIME type
\* only when that is a non-empty string; for a recorded empty string, as for
\* none recorded, it is handed audio/L16;rate=24000.
C8_RecordedMimeOrDefault ==
    /\ [][MimeFirstWins]_vars
    /\ [](\A i \in DOMAIN enc_calls :
             enc_calls[i] = IF mime_type # None /\ mime_type[1] # <<>>
                            THEN mime_type[1] ELSE Mime_L16_24000)

\* C8's case: a later payload-bearing element carried another MIME type, and
\* the one recorded first went to the encoder
C8_Witness ==
    /\ enc_calls = <<Mime_L24_48000>> /\ mime_type = Some(Mime_L24_48000)
    /\ chunk # None /\ chunk[1].kind = "audio"
    /\ chunk[1].mime \notin {None, mime_type}
    /\ Len(cur) >= 2

\* C9: processing an element without audio payload changes neither the
\* buffer nor the recorded MIME type and does not end or fail the attempt.
C9_PayloadFreeIgnored ==
    [][(YieldedNow /\ chunk'[1].kind # "audio") =>
           /\ all_audio_chunks' = all_audio_chunks
           /\ mime_type' = mime_type
           /\ pc' = "streaming"
           /\ events' = events]_vars

\* C10: convert_to_wav returns a buffer, and raises nothing, for every MIME
\* string and payload.
C10_EncoderNeverRaises ==
    pc = "wav_ret" =>
        /\ wav_out[1].raised = "none"
        /\ Len(wav_out[1].buf) = 44 + Len(wav_data)

\* ---------------------------------------------- claims on the MIME parser

\* C11: parse_audio_mime_type returns a pair (bits per sample, sample rate)
\* and raises nothing, for every input string: the empty string, strings
\* without a recognised segment, recognised segments whose value is missing
\* or not an integer.
C11_ParserTotal ==
    parse_out # None =>
        /\ parse_out[1].raised = "none"
        /\ parse_out[1].bits_per_sample \in Int
        /\ parse_out[1].rate \in Int

\* C11's case: both recognised segments are there and neither has a value
C11_Witness == parse_out # None /\ wav_mime = Mime_NoValues

\* The trimmed segments of m
SegmentsOf(m) ==
    LET parts == Split(m, ";")
    IN  [i \in 1..Len(parts) |-> Strip(parts[i])]

\* The integer a segment carries after its first n characters, if any
ValueAfter(seg, n) == ParseInt(SubSeq(seg, n + 1, Len(seg)))

IsRateSegment(seg) ==
    /\ StartsWith(Lower(seg), <<"r", "a", "t", "e", "=">>)
    /\ ValueAfter(seg, 5).ok

IsBitsSegment(seg) ==
    /\ StartsWith(seg, <<"a", "u", "d", "i", "o", "/", "L">>)
    /\ ValueAfter(seg, 7).ok

\* The value of the last segment of m that satisfies Is, read after n
\* characters; dflt when no segment does
LastValue(m, Is(_), n, dflt) ==
    LET segs == SegmentsOf(m)
        good == {i \in 1..Len(segs) : Is(segs[i])}
    IN  IF good = {} THEN dflt
        ELSE ValueAfter(segs[CHOOSE i \in good : \A j \in good : j <= i], n).val

\* C12: the sample rate is the integer of the last trimmed segment whose key
\* is rate= in any case and whose value parses, else 24000; the bits per
\* sample are the integer after the exact prefix audio/L of the last segment
\* that starts with it and parses, else 16; other segments change nothing.
\* The five inputs the specification lists give the pairs it lists.
C12_SegmentBySegment ==
    parse_out # None =>
        LET bits == parse_out[1].bits_per_sample
            rate == parse_out[1].rate
        IN  /\ rate = LastValue(wav_mime, IsRateSegment, 5, 24000)
            /\ bits = LastValue(wav_mime, IsBitsSegment, 7, 16)
            /\ wav_mime = Mime_L16_24000 => bits = 16 /\ rate = 24000
            /\ wav_mime = Mime_L24_48000 => bits = 24 /\ rate = 48000
            /\ wav_mime \in {Mime_Empty, Mime_Garbage, Mime_RateNaN}
                   => bits = 16 /\ rate = 24000

\* C12's case: an upper-case key between blanks after a bits segment
C12_Witness ==
    /\ parse_out # None /\ wav_mime = Mime_UpperKey
    /\ parse_out[1].rate = 44100 /\ parse_out[1].bits_per_sample = 8

\* The little-endian unsigned 16-bit field of b that starts at byte k
U16At(b, k) == b[k] + 256 * b[k + 1]

\* The little-endian unsigned 32-bit field of b that starts at byte k (every
\* header the model builds holds values below 2^31)
U32At(b, k) == U16At(b, k) + 65536 * U16At(b, k + 2)

\* C13: a missing or empty MIME type does not make parsing fail and gives 16
\* bits and 24000 Hz: the parser does so on the empty string, and a request
\* that recorded no MIME type, or an empty one, is encoded with these values.
C13_MissingMimeDefaults ==
    /\ parse_audio_mime_type(Mime_Empty) =
           [bits_per_sample |-> 16, rate |-> 24000, raised |-> "none"]
    /\ (pc = "raised" /\ outcome.kind = "struct_error") =>
           (mime_type # None /\ mime_type[1] # <<>>)
    /\ (pc = "save_audio" /\ (mime_type = None \/ mime_type[1] = <<>>)) =>
           /\ Len(enc_calls) = 1
           /\ parse_audio_mime_type(enc_calls[1]) =
                  [bits_per_sample |-> 16, rate |-> 24000, raised |-> "none"]
           /\ U16At(combined_audio, 35) = 16
           /\ U32At(combined_audio, 25) = 24000

\* C13's case: payloads were collected, none of them came with a MIME type,
\* and the audio has been encoded
C13_Witness ==
    /\ pc = "save_audio" /\ mime_type = None /\ Len(all_audio_chunks) = 2

\* ----------------------------------------------- claims on the WAV encoder

\* The header fields can hold bits, rate, the block size and byte rate they
\* give, and the sizes of a payload of n bytes
InFieldRanges(bits, rate, n) ==
    /\ bits >= 0 /\ bits <= 65535
    /\ rate >= 0
    /\ (rate \div 65536) * (bits \div 8)
           + ((rate % 65536) * (bits \div 8)) \div 65536 <= 65535
    /\ n >= 0 /\ (36 + n) \div 65536 <= 65535

\* C14: for a payload and parsed values within the header's field ranges
\* convert_to_wav returns 44 header bytes and then the payload unchanged, with
\* channels 1, fmt size 16, format tag 1, blockAlign = bits div 8, byteRate =
\* rate * blockAlign, dataSize = payload length, riffChunkSize = 36 +
\* dataSize; 16 bits, 24000 Hz and 48000 bytes give 2, 48000, 48000, 48036
\* and 48044 bytes in all.
C14_HeaderLayout ==
    /\ (pc = "wav_ret"
          /\ InFieldRanges(parse_out[1].bits_per_sample, parse_out[1].rate,
                           Len(wav_data))) =>
           LET buf  == wav_out[1].buf
               bits == parse_out[1].bits_per_sample
               rate == parse_out[1].rate
           IN  /\ wav_out[1].raised = "none"
               /\ Len(buf) = 44 + Len(wav_data)
               /\ SubSeq(buf, 45, Len(buf)) = wav_data
               /\ U32At(buf, 17) = 16
               /\ U16At(buf, 21) = 1
               /\ U16At(buf, 23) = 1
               /\ U16At(buf, 33) = bits \div 8
               /\ U32At(buf, 29) = rate * (bits \div 8)
               /\ U32At(buf, 41) = Len(wav_data)
               /\ U32At(buf, 5) = 36 + Len(wav_data)
    /\ (pc = "wav_ret" /\ wav_mime = Mime_L16_24000
          /\ Len(wav_data) = 48000) =>
           LET buf == wav_out[1].buf
           IN  /\ U16At(buf, 33) = 2
               /\ U32At(buf, 29) = 48000
               /\ U32At(buf, 41) = 48000
               /\ U32At(buf, 5) = 48036
               /\ Len(buf) = 48044

\* C14's case: five bytes of 12-bit audio, where the division by 8 leaves a
\* remainder, have been encoded
C14_Witness ==
    /\ pc = "wav_ret" /\ wav_mime = Mime_L12 /\ Len(wav_data) = 5
    /\ wav_out[1].raised = "none" /\ U16At(wav_out[1].buf, 33) = 1

\* C15: the little-endian fields riffChunkSize, sampleRateHz, bitsPerSample,
\* dataSize, blockAlign and byteRate, decoded at their offsets in the buffer
\* convert_to_wav returns, are the values the header was built from.
C15_HeaderRoundTrip ==
    (pc = "wav_ret" /\ wav_out[1].raised = "none") =>
        LET buf == wav_out[1].buf
            p   == WavParams(wav_data, wav_mime)
        IN  /\ U32At(buf, 5) = p.chunk_size
            /\ U32At(buf, 25) = p.sample_rate
            /\ U16At(buf, 35) = p.bits_per_sample
            /\ U32At(buf, 41) = p.data_size
            /\ U16At(buf, 33) = p.block_align
            /\ U32At(buf, 29) = p.sample_rate * p.block_align

\* C15's case: a header whose fields differ from one another, 24 bits at
\* 48000 Hz over three bytes
C15_Witness ==
    /\ pc = "wav_ret" /\ wav_mime = Mime_L24_48000 /\ wav_data = <<255, 0, 7>>
    /\ wav_out[1].raised = "none"

\* ------------------------------------------------ claims on the two files

\* C16: the audio file holds the 44-byte-header WAV encoding of the assembled
\* payload, under .wav, exactly when no extension is known for the recorded
\* MIME type or none was recorded; otherwise it holds the assembled payload
\* unchanged under the known extension.  The script file has the same base
\* name.
C16_AudioFileLayout ==
    pc = "returned" =>
        LET payload  == Flatten(all_audio_chunks)
            unmapped == mime_type = None \/ GuessExtension(mime_type[1]) = None
            audio    == {f \in files : f.ext # ".txt"}
        IN  /\ Cardinality(audio) = 1
            /\ \A f \in audio :
                  /\ unmapped =>
                        /\ f.ext = ".wav"
                        /\ Len(f.data) = 44 + Len(payload)
                        /\ SubSeq(f.data, 1, 4) = <<82, 73, 70, 70>>
                        /\ SubSeq(f.data, 9, 12) = <<87, 65, 86, 69>>
                        /\ U32At(f.data, 41) = Len(payload)
                        /\ SubSeq(f.data, 45, Len(f.data)) = payload
                  /\ ~unmapped =>
                        /\ f.ext = GuessExtension(mime_type[1])[1]
                        /\ f.data = payload
                  /\ \E g \in files :
                        g.ext = ".txt" /\ g.base = f.base /\ g.text = script

\* C16's case: two payloads of a MIME type with a known extension were saved
C16_Witness ==
    /\ pc = "returned" /\ mime_type = Some(Mime_Mpeg)
    /\ Len(all_audio_chunks) = 2

\* C17: no file is written before collection has succeeded; a request that
\* ends with exhausted retries or with the no-audio error has written neither
\* the script file nor the audio file.
C17_NoFileBeforeCollection ==
    /\ pc \in {"open", "streaming", "retry_sleep", "process"} => files = {}
    /\ (pc = "raised" /\ outcome.kind \in {"generation_failed", "no_audio"})
           => files = {}

\* C17's case: the stream ended after elements without payload, and the
\* request has ended with the no-audio error
C17_Witness ==
    pc = "raised" /\ outcome.kind = "no_audio" /\ cur_elems > 0

\* ------------------------------------------------- claims on main's loop

\* C18: a failed script generation or audio generation ends the current
\* request only: the failure is reported and the loop is at its topic prompt
\* again, where a new topic can be entered; the loop is left only from the
\* prompt, on quit, exit, q or an empty topic.
C18_FailureEndsRequestOnly ==
    /\ [][(main_pc = "script" /\ script' = ScriptError) =>
              (main_pc' = "prompt" /\ report' = "script_error")]_vars
    /\ [][(main_pc = "audio" /\ pc = "raised") =>
              (main_pc' = "prompt" /\ report' = "audio_error")]_vars
    /\ [][(main_pc # "exited" /\ main_pc' = "exited") =>
              /\ main_pc = "prompt"
              /\ Lower(topic') \in {<<"q", "u", "i", "t">>,
                                    <<"e", "x", "i", "t">>, <<"q">>, <<>>}]_vars
    /\ [](main_pc = "audio" /\ pc = "raised" => ENABLED AudioRaise)
    /\ []((main_pc = "prompt" /\ requests < MaxRequests) =>
              ENABLED PromptTopic(Topic_QuitIt))

\* C18's case: a topic has been taken up after a failed audio generation
C18_Witness ==
    main_pc = "script" /\ requests = 2 /\ report = "audio_error"

\* C19: every request starts with an empty buffer and no recorded MIME type,
\* whatever became of the requests before it, and what a request assembles is
\* what its own stream yielded.
C19_RequestsIndependent ==
    /\ (main_pc = "audio" /\ pc = "open" /\ attempt = 0) =>
           (all_audio_chunks = <<>> /\ mime_type = None)
    /\ (main_pc = "audio" /\ pc = "save_script") =>
           combined_audio = Flatten(req_payloads)

\* C19's case: a second request starts after one that collected a payload
C19_Witness ==
    /\ main_pc = "audio" /\ pc = "open" /\ attempt = 0
    /\ requests = 2 /\ n_elems = 1 /\ files # {}

\* ------------------------------------- claims on the pipeline as a whole

\* C21: the bit depth the parser hands to the encoder is a multiple of 8, and
\* the header of every buffer convert_to_wav returns is consistent with it:
\* blockAlign * 8 = channels * bitsPerSample and byteRate * 8 = sampleRateHz *
\* channels * bitsPerSample, with one channel.
C21_HeaderConsistent ==
    (pc = "wav_ret" /\ wav_out[1].raised = "none") =>
        LET buf  == wav_out[1].buf
            bits == parse_out[1].bits_per_sample
            rate == parse_out[1].rate
        IN  /\ bits % 8 = 0
            /\ U16At(buf, 33) * 8 = U16At(buf, 23) * bits
            /\ (rate < 65536 /\ bits < 4096) =>
                   U32At(buf, 29) * 8 = rate * U16At(buf, 23) * bits

\* C22: a request that has ended, by returning or by raising, and has written
\* the script file has written the audio file under the same base name too.
C22_BothOrNeither ==
    pc \in {"returned", "raised"} =>
        \A g \in files :
            g.ext = ".txt" =>
                \E f \in files : f.ext # ".txt" /\ f.base = g.base

\* C26: generate_podcast_audio is entered only from the confirmation prompt,
\* on an answer that is y (the default on an empty line), and only for a
\* script that does not start with the error marker; when
\* generate_podcast_script returns an error-marked script the loop goes
\* straight back to the topic prompt, no stream is opened for it and nothing
\* is written; no script file holds an error-marked script.
C26_AudioOnlyForConfirmedScript ==
    /\ [][(main_pc # "audio" /\ main_pc' = "audio") =>
              /\ main_pc = "proceed"
              /\ Lower(proceed) = <<"y">>
              /\ ~IsErrorMarked(script)]_vars
    /\ [][(main_pc = "proceed" /\ Lower(proceed) # <<"y">>) =>
              (main_pc' = "prompt" /\ UNCHANGED <<pc, files, events>>)]_vars
    /\ [][main_pc' = "proceed" =>
              /\ main_pc = "confirm"
              /\ \E line \in YesNoInputs :
                    proceed' = IF Strip(line) = <<>> THEN <<"y">>
                               ELSE Strip(line)]_vars
    /\ [][(main_pc = "script" /\ IsErrorMarked(script')) =>
              (main_pc' = "prompt" /\ UNCHANGED callVars)]_vars
    /\ [][pc' = "open" /\ pc = "idle" => main_pc' = "audio"]_vars
    /\ [](main_pc \in {"audio", "play"} => ~IsErrorMarked(script))
    /\ [](pc # "idle" => main_pc = "audio")
    /\ [](\A f \in files : f.ext = ".txt" => ~IsErrorMarked(f.text))

\* C26's case: after a request that wrote its files, a second request got an
\* error-marked script and the loop is back at the topic prompt
C26_Witness ==
    /\ main_pc = "prompt" /\ report = "script_error"
    /\ IsErrorMarked(script) /\ requests = 2 /\ files # {}

\* ------------------------------------------- claims on script generation

\* The primary generation calls made so far
PrimaryCalls ==
    {i \in DOMAIN s_log :
        s_log[i].kind \in {"no_text", "empty", "text", "raised"}}

\* The last entry of the log after the step
LastLogged == s_log'[Len(s_log')]

\* The primary call of the step came back empty, or raised an error whose
\* message does not hold content_filter
EmptyOrFailed ==
    /\ s_pc = "call"
    /\ \/ LastLogged.kind \in {"no_text", "empty"}
       \/ /\ LastLogged.kind = "raised"
          /\ ~Contains(Lower(LastLogged.detail), ContentFilter)

\* C24: generate_podcast_script ends by returning a string and in no other
\* way: every step it takes is a generation call or a retry wait, it makes at
\* most MAX_RETRIES = 3 primary calls, an empty response or a non-filter error
\* of attempt 1 or 2 is followed by a wait of RETRY_DELAY and then by the
\* next attempt, and after the third empty or failed attempt it returns a
\* string that starts with the error marker.
C24_ScriptAlwaysReturns ==
    /\ [](s_pc \in {"call", "sleep", "completion", "returned"})
    /\ [](s_pc = "returned" <=> s_result # None)
    /\ [](s_pc # "returned" => ENABLED NextScript)
    /\ [][Len(s_log') = Len(s_log) + 1]_vars
    /\ [](Cardinality(PrimaryCalls) <= MAX_RETRIES
              /\ Len(s_log) <= 2 * MAX_RETRIES)
    /\ [][(EmptyOrFailed /\ s_attempt + 1 < 3) =>
              (s_pc' = "sleep" /\ s_result' = None)]_vars
    /\ [][s_pc = "sleep" =>
              /\ LastLogged.kind = "sleep" /\ LastLogged.delay = RETRY_DELAY
              /\ s_pc' = "call" /\ s_attempt' = s_attempt + 1]_vars
    /\ [][(EmptyOrFailed /\ s_attempt + 1 = 3) =>
              (s_pc' = "returned" /\ IsErrorString(s_result'[1]))]_vars

\* C24's case: two empty or failed attempts were waited out, the third came
\* back empty and the error string was returned
C24_Witness ==
    /\ s_pc = "returned" /\ s_result = Some(UnableError)
    /\ Len(s_log) = 5 /\ s_log[1].kind = "raised" /\ s_log[3].kind = "empty"

C23_PulseThreadsStop ==
    \A i \in DOMAIN pulse :
        (pulse[i] = "running" /\ ~(i = Len(pulse) /\ pc = "streaming")) =>
            received_chunk

====
